---- MODULE Spec2Model ----
(***************************************************************************)
(* Model of fix-all-relations.py: the script reads shared/schema.ts, and   *)
(* for every name of nullable_fields comments out the text matched by a    *)
(* regular expression that names the field, then writes the file back.     *)
(* Text is a sequence of one-character strings.                            *)
(***************************************************************************)
EXTENDS Naturals, Sequences, FiniteSets

\* ---------------------------------------------------------------------
\* Bounds of the model
\* ---------------------------------------------------------------------
MaxRuns == 2      \* consecutive invocations of the script on the same file
MaxBlocks == 2    \* relation declarations in the schema text
MaxIndent == 2    \* spaces of indentation in front of a declaration

\* ---------------------------------------------------------------------
\* Character classes of Python's re module (str patterns)
\* ---------------------------------------------------------------------
Space == {" ", "\n", "\t", "\r", "\f"}

Word ==
  {"a","b","c","d","e","f","g","h","i","j","k","l","m","n","o","p","q","r",
   "s","t","u","v","w","x","y","z","A","B","C","D","E","F","G","H","I","J",
   "K","L","M","N","O","P","Q","R","S","T","U","V","W","X","Y","Z","0","1",
   "2","3","4","5","6","7","8","9","_"}

nullable_fields ==
  << <<"e","n","c","o","u","n","t","e","r","I","d">>,
     <<"a","p","p","o","i","n","t","m","e","n","t","I","d">>,
     <<"o","r","d","e","r","e","d","B","y">>,
     <<"p","r","e","s","c","r","i","b","e","r">>,
     <<"l","a","b","O","r","d","e","r","I","d">>,
     <<"p","h","a","r","m","a","c","y","I","d">>,
     <<"p","r","o","v","i","d","e","r","I","d">>,
     <<"l","o","c","a","t","i","o","n","I","d">>,
     <<"h","e","a","l","t","h","S","y","s","t","e","m","I","d">>,
     <<"r","e","v","i","e","w","e","d","B","y">>,
     <<"v","e","r","i","f","i","e","d","B","y">>,
     <<"a","d","d","e","d","B","y">>,
     <<"r","e","s","o","l","v","e","d","B","y">>,
     <<"e","x","t","e","r","n","a","l","L","a","b","I","d">>,
     <<"a","t","t","a","c","h","m","e","n","t","I","d">>,
     <<"p","a","r","e","n","t","I","d">>,
     <<"u","s","e","r","I","d">>,
     <<"e","l","e","c","t","r","o","n","i","c","S","i","g","n","a","t","u","r","e","I","d">>,
     <<"m","e","d","i","c","a","t","i","o","n","I","d">>,
     <<"p","r","e","f","e","r","r","e","d","P","h","a","r","m","a","c","y","I","d">>,
     <<"s","e","t","B","y">>,
     <<"e","x","a","m","i","n","e","d","B","y">>,
     <<"i","m","a","g","i","n","g","O","r","d","e","r","I","d">>,
     <<"l","a","s","t","U","p","d","a","t","e","d","B","y">> >>

\* ---------------------------------------------------------------------
\* Text helpers
\* ---------------------------------------------------------------------
\* s has the literal lit at index i
HasLit(s, i, lit) ==
  /\ i >= 1
  /\ i + Len(lit) - 1 <= Len(s)
  /\ SubSeq(s, i, i + Len(lit) - 1) = lit

\* least j >= i with s[j] not in C, Len(s)+1 when there is none
SkipWhile(s, i, C) ==
  CHOOSE j \in i..(Len(s) + 1) :
    /\ j = Len(s) + 1 \/ s[j] \notin C
    /\ \A k \in i..(j - 1) : s[k] \in C

\* least j >= i with s[j] = c, Len(s)+1 when there is none
SkipUntil(s, i, c) ==
  CHOOSE j \in i..(Len(s) + 1) :
    /\ j = Len(s) + 1 \/ s[j] = c
    /\ \A k \in i..(j - 1) : s[k] # c

\* least j >= i where lit starts, 0 when there is none (str.find)
FindLit(s, i, lit) ==
  IF \E j \in i..Len(s) : HasLit(s, j, lit)
  THEN CHOOSE j \in i..Len(s) :
         /\ HasLit(s, j, lit)
         /\ \A k \in i..(j - 1) : ~HasLit(s, k, lit)
  ELSE 0

\* str.split('\n')
RECURSIVE Split(_)
Split(s) ==
  LET j == SkipUntil(s, 1, "\n")
  IN IF j > Len(s) THEN << s >>
     ELSE << SubSeq(s, 1, j - 1) >> \o Split(SubSeq(s, j + 1, Len(s)))

\* '\n'.join(lines)
RECURSIVE Join(_)
Join(lines) ==
  IF Len(lines) = 0 THEN << >>
  ELSE IF Len(lines) = 1 THEN lines[1]
  ELSE lines[1] \o << "\n" >> \o Join(Tail(lines))

\* line.strip() is non-empty
StripNonEmpty(line) == \E i \in 1..Len(line) : line[i] \notin Space

\* str.replace(old, new): every non-overlapping occurrence, left to right
RECURSIVE Replace(_, _, _)
Replace(s, old, new) ==
  LET j == FindLit(s, 1, old)
  IN IF j = 0 THEN s
     ELSE SubSeq(s, 1, j - 1) \o new
          \o Replace(SubSeq(s, j + Len(old), Len(s)), old, new)

\* ---------------------------------------------------------------------
\* The pattern
\*   (\s+)(\w+): one\([^,]+,\s*{\s*fields:\s*\[[^\]]*\.FIELD\],.*?}\)
\* with re.DOTALL.  Every quantified item is followed by an item that
\* no character of its class can start, so from a fixed start the
\* backtracking search has one candidate for each item: the greedy
\* items take their maximal run and the lazy .*? stops at the first "})".
\* MatchAt gives the index of the last character of the match that
\* starts at i (0: no match) and the index after group 1.
\* ---------------------------------------------------------------------
NoMatch == [end |-> 0, g1 |-> 0]

MatchAt(s, i, field) ==
  LET p1 == SkipWhile(s, i, Space)            \* (\s+)
      p2 == SkipWhile(s, p1, Word)            \* (\w+)
      p3 == p2 + 6                            \* ": one("
      p4 == SkipUntil(s, p3, ",")             \* [^,]+ then ","
      p5 == SkipWhile(s, p4 + 1, Space)       \* \s* then "{"
      p6 == SkipWhile(s, p5 + 1, Space)       \* \s* then "fields:"
      p7 == SkipWhile(s, p6 + 7, Space)       \* \s* then "["
      p8 == SkipUntil(s, p7 + 1, "]")         \* [^\]]* up to the first "]"
      ref == << "." >> \o field
      p9 == FindLit(s, p8 + 2, <<"}",")">>)        \* .*? then "})"
  IN IF /\ p1 > i
        /\ p2 > p1
        /\ HasLit(s, p2, <<":"," ","o","n","e","(">>)
        /\ p4 > p3
        /\ HasLit(s, p4, <<",">>)
        /\ HasLit(s, p5, <<"{">>)
        /\ HasLit(s, p6, <<"f","i","e","l","d","s",":">>)
        /\ HasLit(s, p7, <<"[">>)
        /\ p8 - Len(ref) >= p7 + 1
        /\ HasLit(s, p8 - Len(ref), ref)
        /\ HasLit(s, p8, <<"]",",">>)
        /\ p9 # 0
     THEN [end |-> p9 + 1, g1 |-> p1]
     ELSE NoMatch

\* re.finditer(pattern, content, re.DOTALL): the non-overlapping matches,
\* leftmost first, each as group(0) and group(1)
RECURSIVE FindIter(_, _, _)
FindIter(s, pos, field) ==
  LET starts == {j \in pos..Len(s) : MatchAt(s, j, field).end # 0}
  IN IF starts = {} THEN << >>
     ELSE LET st == CHOOSE j \in starts : \A k \in starts : j <= k
              m == MatchAt(s, st, field)
          IN << [original |-> SubSeq(s, st, m.end),
                 indent |-> SubSeq(s, st, m.g1 - 1)] >>
             \o FindIter(s, m.end + 1, field)

\* the commented form of one match
Commented(original, indent) ==
  LET lines == Split(original)
  IN Join([k \in 1..Len(lines) |->
             IF StripNonEmpty(lines[k])
             THEN indent \o <<"/","/"," ">> \o lines[k]
             ELSE lines[k]])

\* ---------------------------------------------------------------------
\* Schema texts: relation declarations of the shapes found in a schema
\* file.  A declaration is described by its shape; its text is rendered
\* from the shape.
\* ---------------------------------------------------------------------
userId == nullable_fields[17]
setBy == nullable_fields[21]

Spaces(n) == [k \in 1..n |-> " "]

\* the leading white space of a declaration: on the line of the previous
\* token (0), or on a line of its own behind n spaces
Lead(n) == IF n = 0 THEN <<" ">> ELSE <<"\n">> \o Spaces(n)

\* the elements of the fields array
Elems(arr, f) ==
  CASE arr = "only" -> <<"t",".">> \o f
    [] arr = "first" -> <<"t",".">> \o f \o <<","," ","t",".","i","d">>
    [] arr = "middle" -> <<"t",".","i","d",","," ","t",".">> \o f \o <<","," ","t",".","k">>
    [] arr = "last" -> <<"t",".","i","d",","," ","t",".">> \o f
    [] arr = "none" -> <<"t",".","i","d">>

\* the text of a declaration from its name to its end
BlockText(name, arr, lay, f, n) ==
  LET A == <<"f","i","e","l","d","s",":"," ","[">> \o Elems(arr, f) \o <<"]">>
      R == <<"r","e","f","e","r","e","n","c","e","s",":"," ","[","u",".","i","d","]">>
      W == <<"w","h","e","r","e",":"," ","f","(","{","}",")">>
      H == name \o <<":"," ","o","n","e","(","t",","," ","{">>
      in1 == <<"\n">> \o Spaces(n)
      in2 == <<"\n">> \o Spaces(2 * n)
  IN CASE lay = "one" -> H \o <<" ">> \o A \o <<","," ">> \o R \o <<" ","}",")">>
       [] lay = "nocomma" -> H \o <<" ">> \o A \o <<" ","}",")">>
       [] lay = "inner" ->
            H \o <<" ">> \o A \o <<","," ">> \o W \o <<","," ">> \o R \o <<" ","}",")">>
       [] lay = "spaced" -> H \o <<" ">> \o A \o <<","," ">> \o R \o <<" ","}"," ",")">>
       [] lay = "open" -> H \o <<" ">> \o A \o <<","," ">> \o R
       [] lay = "multi" ->
            H \o in2 \o A \o <<",">> \o in2 \o R \o in1 \o <<"}",")">>
       [] lay = "minner" ->
            H \o in2 \o A \o <<",">> \o in2 \o W \o <<",">> \o in2 \o R
              \o in1 \o <<"}",")">>
       [] lay = "blank" ->
            H \o in2 \o A \o <<",">> \o <<"\n">> \o in2 \o R \o in1 \o <<"}",")">>

\* the first physical line of a declaration
HeadLine(text) == SubSeq(text, 1, SkipUntil(text, 1, "\n") - 1)

Block(name, arr, lay, f, n) ==
  LET text == BlockText(name, arr, lay, f, n)
  IN [lead |-> Lead(n),
      text |-> text,
      head |-> HeadLine(text),
      refs |-> arr # "none",
      field |-> IF arr = "none" THEN <<"i","d">> ELSE f,
      closed |-> lay # "open",
      plain |-> arr = "only" /\ lay \in {"one", "multi"}]

FirstShapes ==
  { <<"only", "one">>, <<"only", "multi">>, <<"first", "one">>,
    <<"middle", "one">>, <<"last", "one">>, <<"none", "one">>,
    <<"only", "nocomma">>, <<"only", "inner">>, <<"only", "minner">>,
    <<"only", "spaced">>, <<"only", "open">>, <<"only", "blank">> }

\* the declarations that may follow the first one: <<name, arr, lay>>
NextShapes ==
  { <<<<"a">>, "only", "one">>, <<<<"b">>, "only", "one">>,
    <<<<"b">>, "none", "one">>, <<<<"b">>, "only", "multi">> }

\* the schema files: one to MaxBlocks declarations in an object literal
BlockLists ==
  UNION { { [k \in 1..len |->
              IF k = 1 THEN Block(<<"a">>, sh[1], sh[2], f, n)
              ELSE Block(nx[k][1], nx[k][2], nx[k][3], userId, n)] :
            sh \in FirstShapes, f \in {userId, setBy},
            n \in 0..MaxIndent, nx \in [1..len -> NextShapes] } :
          len \in 1..MaxBlocks }

RECURSIVE Render(_)
Render(bs) ==
  IF Len(bs) = 0 THEN << >>
  ELSE bs[1].lead \o bs[1].text \o <<",">> \o Render(Tail(bs))

SchemaText(bs) == <<"r"," ","="," ","{">> \o Render(bs) \o <<"\n","}","\n">>

\* ---------------------------------------------------------------------
\* The script
\* ---------------------------------------------------------------------
VARIABLES
  disk,      \* the content of shared/schema.ts
  content,   \* the variable content
  pc,        \* the position of the script
  fi,        \* the index of field in nullable_fields, 0 before the loop
  matches,   \* the matches the iterator of the inner loop has yet to yield
  run,       \* the invocation of the script
  blocks,    \* the declarations the schema file was written with
  source,    \* the schema file before the first invocation
  before,    \* the schema file as the running invocation found it
  result1,   \* the schema file after the first invocation
  last,      \* original and commented of the replacement just made
  nRead,     \* reads of the file in this invocation
  nOpenW,    \* opens of the file for writing in this invocation
  nRepl      \* replacements in this invocation

vars ==
  << disk, content, pc, fi, matches, run, blocks, source, before, result1,
     last, nRead, nOpenW, nRepl >>

NoText == << >>
NoLast == [original |-> NoText, commented |-> NoText, indent |-> NoText]

Init ==
  /\ blocks \in BlockLists
  /\ disk = SchemaText(blocks)
  /\ source = disk
  /\ before = disk
  /\ content = NoText
  /\ pc = "start"
  /\ fi = 0
  /\ matches = << >>
  /\ run = 1
  /\ result1 = NoText
  /\ last = NoLast
  /\ nRead = 0
  /\ nOpenW = 0
  /\ nRepl = 0

\* with open('shared/schema.ts', 'r') as f: content = f.read()
ReadOk ==
  /\ pc = "start"
  /\ content' = disk
  /\ nRead' = nRead + 1
  /\ pc' = "fields"
  /\ UNCHANGED << disk, fi, matches, run, blocks, source, before, result1, last,
                  nOpenW, nRepl >>

\* the exception of the read swallowed: the script goes on with no content
ReadFailIgnored ==
  /\ pc = "start"
  /\ pc' = "fields"
  /\ UNCHANGED << disk, content, fi, matches, run, blocks, source, before, result1,
                  last, nRead, nOpenW, nRepl >>

\* open or read raises: the script ends with the exception
ReadFail ==
  /\ pc = "start"
  /\ pc' = "read_failed"
  /\ UNCHANGED << disk, content, fi, matches, run, blocks, source, before, result1,
                  last, nRead, nOpenW, nRepl >>

\* for field in nullable_fields: matches = re.finditer(pattern, content, ...)
NextField ==
  /\ pc = "fields"
  /\ matches = << >>
  /\ fi < Len(nullable_fields)
  /\ fi' = fi + 1
  /\ matches' = FindIter(content, 1, nullable_fields[fi + 1])
  /\ last' = NoLast
  /\ UNCHANGED << disk, content, pc, run, blocks, source, before, result1, nRead,
                  nOpenW, nRepl >>

\* for match in matches: content = content.replace(original, commented)
ProcessMatch ==
  /\ pc = "fields"
  /\ matches # << >>
  /\ LET m == Head(matches)
         commented == Commented(m.original, m.indent)
     IN /\ content' = Replace(content, m.original, commented)
        /\ last' = [original |-> m.original, commented |-> commented,
                    indent |-> m.indent]
  /\ matches' = Tail(matches)
  /\ nRepl' = nRepl + 1
  /\ UNCHANGED << disk, pc, fi, run, blocks, source, before, result1, nRead,
                  nOpenW >>

LoopDone ==
  /\ pc = "fields"
  /\ matches = << >>
  /\ fi = Len(nullable_fields)

\* open('shared/schema.ts', 'w') truncates the file
OpenWriteOk ==
  /\ LoopDone
  /\ disk' = NoText
  /\ nOpenW' = nOpenW + 1
  /\ pc' = "writing"
  /\ UNCHANGED << content, fi, matches, run, blocks, source, before, result1, last,
                  nRead, nRepl >>

\* open('shared/schema.ts', 'w') raises: the file is as it was
OpenWriteFail ==
  /\ LoopDone
  /\ nOpenW' = nOpenW + 1
  /\ pc' = "write_failed"
  /\ UNCHANGED << disk, content, fi, matches, run, blocks, source, before, result1,
                  last, nRead, nRepl >>

\* f.write(content) and the close of the file
WriteOk ==
  /\ pc = "writing"
  /\ disk' = content
  /\ result1' = IF run = 1 THEN content ELSE result1
  /\ pc' = "done"
  /\ UNCHANGED << content, fi, matches, run, blocks, source, before, last, nRead,
                  nOpenW, nRepl >>

\* the number of characters that reached the file when the write raised
WriteCuts(text) == {0, Len(text) \div 2, Len(text) - 1}

\* f.write(content) or the flush at close raises (disk full, I/O error)
WriteFail ==
  /\ pc = "writing"
  /\ \E k \in WriteCuts(content) : disk' = SubSeq(content, 1, k)
  /\ pc' = "write_failed"
  /\ UNCHANGED << content, fi, matches, run, blocks, source, before, result1, last,
                  nRead, nOpenW, nRepl >>

\* the script is run again on the file it wrote
Rerun ==
  /\ pc = "done"
  /\ run < MaxRuns
  /\ run' = run + 1
  /\ pc' = "start"
  /\ content' = NoText
  /\ fi' = 0
  /\ last' = NoLast
  /\ nRead' = 0
  /\ nOpenW' = 0
  /\ nRepl' = 0
  /\ before' = disk
  /\ UNCHANGED << disk, matches, blocks, source, result1 >>

Next ==
  \/ ReadOk
  \/ ReadFail
  \/ NextField
  \/ ProcessMatch
  \/ OpenWriteOk
  \/ OpenWriteFail
  \/ WriteOk
  \/ WriteFail
  \/ Rerun

Spec == Init /\ [][Next]_vars

\* ---------------------------------------------------------------------
\* Notions the properties are stated with
\* ---------------------------------------------------------------------
Contains(s, sub) == FindLit(s, 1, sub) # 0

Occurrences(s, sub) == {j \in 1..Len(s) : HasLit(s, j, sub)}

Count(s, c) == Cardinality({k \in 1..Len(s) : s[k] = c})

NumLines(s) == Count(s, "\n") + 1

Blank == {" ", "\t"}

\* greatest j < pos with s[j] not in Blank, 0 when there is none
BackSkip(s, pos) ==
  CHOOSE j \in 0..(pos - 1) :
    /\ j = 0 \/ s[j] \notin Blank
    /\ \A k \in (j + 1)..(pos - 1) : s[k] \in Blank

\* the number of comment markers that stand right in front of pos
RECURSIVE MarkerDepth(_, _)
MarkerDepth(s, pos) ==
  LET q == BackSkip(s, pos)
  IN IF q >= 2 /\ s[q] = "/" /\ s[q - 1] = "/"
     THEN 1 + MarkerDepth(s, q - 1)
     ELSE 0

\* the comment markers in front of each place the declaration b stands at
Depths(b, out) == {MarkerDepth(out, j) : j \in Occurrences(out, b.head)}

\* the declaration b stands in out as it was written, with no marker
Untouched(b, out) ==
  /\ Contains(out, b.lead \o b.text)
  /\ Depths(b, out) = {0}

\* every delimiter family has as many openers as closers in s
Balanced(s) ==
  /\ Count(s, "(") = Count(s, ")")
  /\ Count(s, "{") = Count(s, "}")
  /\ Count(s, "[") = Count(s, "]")

\* no proper prefix of s closes the first parenthesis s opens
EndsAtOuterClose(s) ==
  LET open == SkipUntil(s, 1, "(")
  IN /\ open < Len(s)
     /\ s[Len(s)] = ")"
     /\ \A j \in open..(Len(s) - 1) :
          Count(SubSeq(s, 1, j), "(") > Count(SubSeq(s, 1, j), ")")

\* the line with the marker put where its text starts
MarkedLine(line) ==
  LET t == SkipWhile(line, 1, Space)
  IN SubSeq(line, 1, t - 1) \o <<"/","/"," ">> \o SubSeq(line, t, Len(line))

Finished(r) == pc = "done" /\ run = r

Replaced == last # NoLast

BlockIndices == 1..Len(blocks)

\* ---------------------------------------------------------------------
\* Properties
\* ---------------------------------------------------------------------

\* C1: a second invocation leaves the file as the first invocation wrote
\* it: rewrite(rewrite(S, F), F) = rewrite(S, F).
Idempotence == Finished(2) => disk = result1

\* C2: a declaration that references no target field stands in the output
\* with its original text and no marker, and a file none of whose
\* declarations references a target field is written back unchanged.
Selectivity ==
  Finished(1) =>
    /\ \A k \in BlockIndices : ~blocks[k].refs => Untouched(blocks[k], disk)
    /\ (\A k \in BlockIndices : ~blocks[k].refs) => disk = source

\* C3: a declaration is commented out if and only if its fields array
\* references a target field, at any place of the array and with or
\* without a comma behind the closing bracket.
Completeness ==
  Finished(1) =>
    \A k \in BlockIndices :
      blocks[k].refs <=> 0 \notin Depths(blocks[k], disk)

\* C4: the text that is commented out ends right after the parenthesis
\* that closes the declaration's opening parenthesis, so it is balanced
\* over parentheses, braces and brackets.
BalanceSoundness ==
  Replaced => Balanced(last.original) /\ EndsAtOuterClose(last.original)

\* C5: when two declarations of the form of Scenario A (one reference in
\* the fields array, the references array behind it, the whole closed by
\* "})") reference the same target field, each of them carries exactly
\* one comment marker after the run: none is left without a marker and
\* none has two.
SingleProcessing ==
  Finished(1) =>
    \A k \in BlockIndices : \A l \in BlockIndices :
      (k # l /\ blocks[k].plain /\ blocks[l].plain
         /\ blocks[k].field = blocks[l].field)
        => Depths(blocks[k], disk) = {1}

\* C6: the commented form of a block has, line by line, the marker "// "
\* put at the indentation of each non-blank line and nothing else, and
\* the blank lines as they were.
LineWise ==
  Replaced =>
    LET lo == Split(last.original)
        lc == Split(last.commented)
    IN /\ Len(lc) = Len(lo)
       /\ \A k \in 1..Len(lo) :
            IF k > Len(lc) THEN FALSE
            ELSE IF StripNonEmpty(lo[k]) THEN lc[k] = MarkedLine(lo[k])
            ELSE lc[k] = lo[k]

\* C7: commenting adds and removes no newline: the commented text has the
\* lines of the matched text and the output file has the lines of the
\* input file.
LineCountPreserved ==
  /\ Replaced => NumLines(last.commented) = NumLines(last.original)
  /\ Finished(1) => NumLines(disk) = NumLines(source)

\* C8: after a write that failed, at the open or during the write, the
\* file holds the complete content it had before the invocation.
WriteAtomicity == pc = "write_failed" => disk = before

\* C9: a declaration whose delimiters are not closed is left as it was,
\* while the well-formed declarations of the file are commented out when
\* they reference a target field and left alone when they do not.
LocalRecovery ==
  Finished(1) =>
    \A k \in BlockIndices :
      ~blocks[k].closed =>
        /\ Untouched(blocks[k], disk)
        /\ \A l \in BlockIndices :
             blocks[l].closed =>
               IF blocks[l].refs
               THEN Depths(blocks[l], disk) = {1}
               ELSE Untouched(blocks[l], disk)

\* C10: in one invocation the file is read once before any replacement,
\* it is opened for writing at most once and only after the read and the
\* replacements of every target field, and a failed read leaves the file
\* unopened for writing.
LoadTransformSave ==
  /\ nRead <= 1
  /\ nOpenW <= 1
  /\ nRepl > 0 => nRead = 1
  /\ content # NoText => nRead = 1
  /\ pc \in {"fields", "writing", "done", "write_failed"} => nRead = 1
  /\ nOpenW = 1 =>
       nRead = 1 /\ fi = Len(nullable_fields) /\ matches = << >>
  /\ pc \in {"writing", "done"} => nOpenW = 1
  /\ pc = "read_failed" => nOpenW = 0 /\ nRepl = 0 /\ disk = before

\* an invocation that read the file, replaced a block and wrote the file
LoadTransformSaveWitness == pc = "done" /\ nRepl > 0 /\ nOpenW = 1

====
